---- MODULE Spec2Model ----
(***************************************************************************)
(* Playback controller of boombox (src/main.rs: play, play_track and their *)
(* helpers; src/display.rs: the Display sink).  The reader, the decoder    *)
(* and the audio output are external: each call to them is an input whose  *)
(* outcome is chosen from the outcomes their signatures allow.             *)
(***************************************************************************)
EXTENDS Integers, Sequences, FiniteSets, TLC

\* ---------------------------------------------------------------- bounds
MaxPackets == 3      \* replies of next_packet before the one that ends the run
MaxTs      == 1      \* largest presentation timestamp
MaxLen     == 3      \* longest mono signal handed to stft

\* ------------------------------------------------------- Option / Result
None == << >>
Some(x) == << x >>

NoError == [type |-> "none", kind |-> "none", msg |-> "none"]
Ok(code) == [ok |-> TRUE, code |-> code, err |-> NoError]
Err(e) == [ok |-> FALSE, code |-> 0, err |-> e]

\* symphonia::core::errors::Error values the controller tells apart
ResetRequired == [type |-> "ResetRequired", kind |-> "none", msg |-> "none"]
DecodeError == [type |-> "DecodeError", kind |-> "none", msg |-> "none"]
Unsupported == [type |-> "Unsupported", kind |-> "none", msg |-> "none"]
SeekError == [type |-> "SeekError", kind |-> "none", msg |-> "none"]
IoError(kind, msg) == [type |-> "IoError", kind |-> kind, msg |-> msg]
EndOfStream == IoError("UnexpectedEof", "end of stream")

IoErrors ==
  { EndOfStream, IoError("UnexpectedEof", "other"), IoError("Other", "end of stream") }

\* ------------------------------------------------------------ the inputs
CODEC_TYPE_NULL == 0

\* A track: its id and its codec.  The codec stands for the whole of
\* codec_params: the decoder made from it produces blocks whose spec and
\* capacity are that codec's.
Track(id, codec) == [id |-> id, codec |-> codec]

TrackLists ==
  { << >>,
    << Track(1, CODEC_TYPE_NULL) >>,
    << Track(2, CODEC_TYPE_NULL), Track(1, 2) >>,
    << Track(1, 1), Track(2, 2) >> }

TrackNums == {None} \cup { Some(i) : i \in 0..1 }
SeekTimes == {None, Some(10)}
PacketTrackIds == {1, 2}
Timestamps == 0..MaxTs

\* ------------------------------------------------------------- the state
VARIABLES
  pc,            \* position in play / play_track
  tracks,        \* reader.tracks()
  track_num,     \* play's argument
  seek_time,     \* play's argument
  track_id,      \* play's local (main.rs:163)
  track_info,    \* PlayTrackOptions handed to play_track
  audio_output,  \* Option<Box<dyn AudioOutput>>
  display,       \* Option<Box<dyn Display>>
  decoder,       \* the decoder of the running play_track, if any
  track_result,  \* what play_track returned
  result,        \* what play returned
  seek_reply,    \* what reader.seek answered, if it was called
  pulled,        \* packets pulled so far, with what became of each
  events,        \* calls made to the reader, the decoder and the sinks
  finalized,     \* decoder.finalize().verify_ok, once finalize was called
  resets,        \* reset-required signals raised while decoding
  loop_result,   \* what the decode loop of play_track broke with (main.rs:252)
  make_reply,    \* what get_codecs().make answered (main.rs:245)
  signal,        \* stft's argument: the mono samples, in hundredths
  window_size,   \* stft's argument
  hop_size,      \* stft's argument
  frame_start,   \* stft's loop variable i
  stft_result    \* the frames stft has pushed

vars == << pc, tracks, track_num, seek_time, track_id, track_info,
           audio_output, display, decoder, track_result,
           result, seek_reply, pulled, events, finalized, resets,
           loop_result, make_reply, signal, window_size, hop_size,
           frame_start, stft_result >>

\* the state of a call of STFTDisplay::stft
stft_vars == << signal, window_size, hop_size, frame_start, stft_result >>

\* the state of play, but for its position
play_vars == << tracks, track_num, seek_time, track_id, track_info,
                audio_output, display, decoder, track_result, result,
                seek_reply, pulled, events, finalized, resets,
                loop_result, make_reply >>

Event(op, n) == [op |-> op, n |-> n]

\* --------------------------------------------------------------- helpers
Min(S) == CHOOSE x \in S : \A y \in S : x <= y

\* tracks.get(t): the track at a zero-based index
Get(ts, t) == IF t + 1 \in DOMAIN ts THEN Some(ts[t + 1]) ELSE None

IsSupported(t) == t.codec # CODEC_TYPE_NULL

first_supported_track(ts) ==
  LET idx == { i \in DOMAIN ts : IsSupported(ts[i]) }
  IN  IF idx = {} THEN None ELSE Some(ts[Min(idx)])

\* a selection that honours the user's index only for a supported track
InitialTrack_supported_only(num, ts) ==
  LET byIndex == IF num = None THEN None ELSE Get(ts, num[1])
  IN  IF byIndex # None /\ IsSupported(byIndex[1])
        THEN byIndex ELSE first_supported_track(ts)

\* track_num.and_then(|t| tracks.get(t)).or_else(|| first_supported_track(tracks))
InitialTrack(num, ts) ==
  LET byIndex == IF num = None THEN None ELSE Get(ts, num[1])
  IN  IF byIndex # None THEN byIndex ELSE first_supported_track(ts)

\* a lookup that takes the first track of the list, whatever its id
FindTrack_first(ts, id) == IF ts = << >> THEN None ELSE Some(ts[1])

\* reader.tracks().iter().find(|track| track.id == id)
FindTrack(ts, id) ==
  LET idx == { i \in DOMAIN ts : ts[i].id = id }
  IN  IF idx = {} THEN None ELSE Some(ts[Min(idx)])

\* no call of stft is under way
NoStft ==
  /\ signal = << >>
  /\ window_size = 0
  /\ hop_size = 0
  /\ frame_start = 0
  /\ stft_result = << >>

Init ==
  /\ pc = "select"
  /\ NoStft
  /\ tracks \in TrackLists
  /\ track_num \in TrackNums
  /\ seek_time \in SeekTimes
  /\ track_id = 0
  /\ track_info = [track_id |-> 0, seek_ts |-> 0]
  /\ audio_output = None
  /\ display = None
  /\ decoder = None
  /\ track_result = None
  /\ result = None
  /\ seek_reply = None
  /\ pulled = << >>
  /\ events = << >>
  /\ finalized = None
  /\ loop_result = None
  /\ make_reply = None
  /\ resets = 0

\* ------------------------------------------------- play: track selection
\* a play that goes on to seek without a track
SelectTrack_falls_through ==
  /\ pc = "select"
  /\ LET track == InitialTrack(track_num, tracks)
     IN  track_id' = IF track = None THEN 0 ELSE track[1].id
  /\ pc' = "seek"
  /\ UNCHANGED << tracks, track_num, seek_time, track_info, audio_output,
                  display, decoder, track_result, result,
                  seek_reply, pulled, events, finalized, resets,
                  loop_result, make_reply, stft_vars >>

SelectTrack ==
  /\ pc = "select"
  /\ LET track == InitialTrack(track_num, tracks)
     IN  IF track = None
           THEN /\ result' = Some(Ok(0))
                /\ pc' = "returned"
                /\ UNCHANGED track_id
           ELSE /\ track_id' = track[1].id
                /\ pc' = "seek"
                /\ UNCHANGED result
  /\ UNCHANGED << tracks, track_num, seek_time, track_info, audio_output,
                  display, decoder, track_result, seek_reply,
                  pulled, events, resets,
                  finalized, loop_result, make_reply, stft_vars >>

\* ------------------------------------------------------------ play: seek
SeekedTo(ts) == [ok |-> TRUE, required_ts |-> ts, err |-> NoError]
SeekFailed(e) == [ok |-> FALSE, required_ts |-> 0, err |-> e]

SeekReplies ==
  { SeekedTo(ts) : ts \in Timestamps }
    \cup { SeekFailed(e) : e \in {ResetRequired, SeekError} }

\* a seek whose required timestamp is thrown away
SeekTs_zero(reply) == 0

\* the value of the match on reader.seek (main.rs:179-191)
SeekTs(reply) == IF reply.ok THEN reply.required_ts ELSE 0

\* seek_time is None: the reader is not asked to seek
SeekNone ==
  /\ pc = "seek"
  /\ seek_time = None
  /\ track_info' = [track_id |-> track_id, seek_ts |-> 0]
  /\ pc' = "play_track"
  /\ UNCHANGED << tracks, track_num, seek_time, track_id, audio_output,
                  display, decoder, track_result, result,
                  seek_reply, pulled, events, resets,
                  finalized, loop_result, make_reply, stft_vars >>

\* reader.seek answers Ok(seeked_to), or an error that is not a reset
SeekDone ==
  /\ pc = "seek"
  /\ seek_time # None
  /\ \E reply \in SeekReplies :
       /\ reply.err # ResetRequired
       /\ seek_reply' = Some(reply)
       /\ track_info' = [track_id |-> track_id, seek_ts |-> SeekTs(reply)]
  /\ events' = Append(events, Event("seek", 0))
  /\ pc' = "play_track"
  /\ UNCHANGED << tracks, track_num, seek_time, track_id, audio_output,
                  display, decoder, track_result, result,
                  pulled, resets,
                  finalized, loop_result, make_reply, stft_vars >>

\* a reset on seek that keeps the track selected before the seek
SeekReset_keeps_track ==
  /\ pc = "seek"
  /\ seek_time # None
  /\ seek_reply' = Some(SeekFailed(ResetRequired))
  /\ events' = Append(events, Event("seek", 0))
  /\ tracks' \in TrackLists
  /\ track_info' = [track_id |-> track_id, seek_ts |-> 0]
  /\ pc' = "play_track"
  /\ UNCHANGED << track_num, seek_time, track_id, audio_output, display,
                  decoder, track_result, result, pulled,
                  finalized, resets, loop_result, make_reply, stft_vars >>

\* reader.seek answers Err(ResetRequired): the reader has a new track list
SeekReset ==
  /\ pc = "seek"
  /\ seek_time # None
  /\ seek_reply' = Some(SeekFailed(ResetRequired))
  /\ events' = Append(events, Event("seek", 0))
  /\ \E newTracks \in TrackLists :
       /\ tracks' = newTracks
       /\ LET track == first_supported_track(newTracks)
          IN  IF track = None
                THEN \* first_supported_track(..).unwrap() panics
                     /\ pc' = "panicked"
                     /\ UNCHANGED << track_id, track_info >>
                ELSE /\ track_id' = track[1].id
                     /\ track_info' = [track_id |-> track[1].id,
                                       seek_ts |-> SeekTs(SeekFailed(ResetRequired))]
                     /\ pc' = "play_track"
  /\ UNCHANGED << track_num, seek_time, audio_output, display, decoder,
                  track_result, result, pulled, resets,
                  finalized, loop_result, make_reply, stft_vars >>

\* --------------------------------------------------- play_track: entry
\* get_codecs().make(&track.codec_params, ..): no decoder is registered for
\* CODEC_TYPE_NULL; for another codec one may or may not be
MakeReplies(track) ==
  IF IsSupported(track) THEN {Ok(0), Err(Unsupported)} ELSE {Err(Unsupported)}

PlayTrackEnter ==
  /\ pc = "play_track"
  /\ LET track == FindTrack(tracks, track_info.track_id)
     IN  IF track = None
           THEN /\ track_result' = Some(Ok(0))
                /\ pc' = "play_match"
                /\ UNCHANGED << decoder, events, make_reply >>
           ELSE \E made \in MakeReplies(track[1]) :
                  /\ events' = Append(events, Event("make", 0))
                  /\ make_reply' = Some(made)
                  /\ IF made.ok
                       THEN /\ decoder' = Some(track[1].codec)
                            /\ pc' = "decode"
                            /\ UNCHANGED track_result
                       ELSE /\ track_result' = Some(made)
                            /\ pc' = "play_match"
                            /\ UNCHANGED decoder
  /\ loop_result' = None
  /\ UNCHANGED << tracks, track_num, seek_time, track_id, track_info,
                  audio_output, display, result, seek_reply, pulled, resets,
                  finalized, stft_vars >>

\* --------------------------------------------- play_track: the decode loop
Packet(n, track, ts) == [n |-> n, track_id |-> track, ts |-> ts]

\* what became of a reply of next_packet, and the selection it came under
Pulled(packet, dec) ==
  [n |-> packet.n, track_id |-> packet.track_id, ts |-> packet.ts,
   dec |-> dec, sel |-> track_info]

NextN == Len(pulled) + 1

Packets == { Packet(NextN, t, ts) : t \in PacketTrackIds, ts \in Timestamps }

\* The timestamp of a packet is read only once the packet has decoded and
\* the sinks are open (main.rs:300): the packets that do not get that far
\* are drawn with one timestamp.
UnreadPackets == { packet \in Packets : packet.ts = 0 }

ReaderErrors == IoErrors \cup {ResetRequired}
DecoderErrors == {DecodeError, ResetRequired, IoError("UnexpectedEof", "other")}

\* a loop that takes every packet for one of the selected track
NotSelected_never(packet, play_opts) == FALSE

\* packet.track_id() != play_opts.track_id (main.rs:260)
NotSelected(packet, play_opts) == packet.track_id # play_opts.track_id

\* a sink that is opened again for every block
IsNone_always(handle) == TRUE

\* audio_output.is_none() / display.is_none() (main.rs:269, 283)
IsNone(handle) == handle = None

\* a loop that forwards every decoded block
PassesSeekFloor_always(packet, play_opts) == TRUE

\* packet.ts() >= play_opts.seek_ts (main.rs:300)
PassesSeekFloor(packet, play_opts) == packet.ts >= play_opts.seek_ts

\* a loop that breaks on every decoder error
IsNonFatalDecodeError_never(e) == FALSE

\* Err(Error::DecodeError(_)) is the one error the loop does not break on
IsNonFatalDecodeError(e) == e.type = "DecodeError"

\* the calls that open the sinks that are not open yet (main.rs:269-295)
OpenCalls(n) ==
  (IF IsNone(audio_output) THEN << Event("open_audio", n) >> ELSE << >>)
    \o (IF IsNone(display) THEN << Event("open_display", n) >> ELSE << >>)

\* a loop that forgets the display
WriteCalls_audio_only(n) == << Event("write_audio", n) >>

\* a loop that hands the block to the display first
WriteCalls_display_first(n) ==
  << Event("write_display", n), Event("write_audio", n) >>

\* the calls that hand block n to the sinks (main.rs:305-311)
WriteCalls(n) == << Event("write_audio", n), Event("write_display", n) >>

\* ---------------------------------------------------- play_track: exit
\* a check of the error's kind that does not read its message
ignore_end_of_stream_error_any_eof(res) ==
  IF /\ ~res.ok
     /\ res.err.type = "IoError"
     /\ res.err.kind = "UnexpectedEof"
    THEN Ok(0)
    ELSE res

\* Err(IoError(err)) if err.kind() == UnexpectedEof && err.to_string() ==
\* "end of stream" => Ok(0); every other result is handed back as it is
ignore_end_of_stream_error(res) ==
  IF /\ ~res.ok
     /\ res.err.type = "IoError"
     /\ res.err.kind = "UnexpectedEof"
     /\ res.err.msg = "end of stream"
    THEN Ok(0)
    ELSE res

\* finalization.verify_ok: Option<bool>
VerifyOutcomes == {None, Some(TRUE), Some(FALSE)}

\* a verification outcome that is not surfaced
do_verification_ignored(verify_ok) == Ok(0)

do_verification(verify_ok) ==
  IF verify_ok # None
    THEN Ok(IF verify_ok[1] THEN 0 ELSE 1)
    ELSE Ok(0)

\* ignore_end_of_stream_error(result)? lets play_track go on to finalize
ReachesFinalize(e) == ignore_end_of_stream_error(Err(e)).ok

\* what play_track returns once the loop has broken with Err(e)
PlayTrackReturn(e, verify_ok) ==
  IF ReachesFinalize(e)
    THEN do_verification(verify_ok)
    ELSE ignore_end_of_stream_error(Err(e))

\* the loop breaks with Err(e) and play_track returns (main.rs:323-331)
Break(e) ==
  /\ \E verify_ok \in (IF ReachesFinalize(e) THEN VerifyOutcomes ELSE {None}) :
       /\ track_result' = Some(PlayTrackReturn(e, verify_ok))
       /\ finalized' = IF ReachesFinalize(e) THEN Some(verify_ok)
                                             ELSE finalized
  /\ events' = IF ReachesFinalize(e)
                 THEN Append(events, Event("finalize", 0))
                 ELSE events
  /\ loop_result' = Some(Err(e))
  /\ decoder' = None
  /\ pc' = "play_match"

\* reader.next_packet() fails with an error that is not a reset
NextPacketError ==
  /\ pc = "decode"
  /\ \E e \in ReaderErrors \ {ResetRequired} : Break(e)
  /\ UNCHANGED << tracks, track_num, seek_time, track_id, track_info,
                  audio_output, display, result, seek_reply, pulled, resets,
                  make_reply, stft_vars >>

\* reader.next_packet() fails with ResetRequired: the reader has a new
\* track list
NextPacketReset ==
  /\ pc = "decode"
  /\ Len(pulled) < MaxPackets
  /\ tracks' \in TrackLists
  /\ pulled' = Append(pulled, Pulled(Packet(NextN, 0, 0), "reset"))
  /\ resets' = resets + 1
  /\ Break(ResetRequired)
  /\ UNCHANGED << track_num, seek_time, track_id, track_info, audio_output,
                  display, result, seek_reply, make_reply, stft_vars >>

\* a packet of another track: continue
PacketSkipped ==
  /\ pc = "decode"
  /\ Len(pulled) < MaxPackets
  /\ \E packet \in UnreadPackets :
       /\ NotSelected(packet, track_info)
       /\ pulled' = Append(pulled, Pulled(packet, "skipped"))
  /\ UNCHANGED << pc, tracks, track_num, seek_time, track_id, track_info,
                  audio_output, display, decoder, track_result, result,
                  seek_reply, events, finalized, resets,
                  loop_result, make_reply, stft_vars >>

\* a packet of the selected track decodes, and every sink call succeeds
DecodeOk ==
  /\ pc = "decode"
  /\ Len(pulled) < MaxPackets
  /\ \E packet \in Packets :
       /\ ~NotSelected(packet, track_info)
       /\ pulled' = Append(pulled, Pulled(packet, "ok"))
       /\ audio_output' = IF IsNone(audio_output) THEN Some(decoder[1])
                                                  ELSE audio_output
       /\ display' = IF IsNone(display) THEN Some(decoder[1]) ELSE display
       /\ events' = events \o OpenCalls(packet.n)
                      \o (IF PassesSeekFloor(packet, track_info)
                            THEN WriteCalls(packet.n) ELSE << >>)
  /\ UNCHANGED << pc, tracks, track_num, seek_time, track_id, track_info,
                  decoder, track_result, result, seek_reply, finalized,
                  resets, loop_result, make_reply, stft_vars >>

\* output::try_open(..).unwrap() on an Err: the process panics.
\* (display::try_open and Display::write of display.rs only return Ok.)
AudioOpenPanic ==
  /\ pc = "decode"
  /\ Len(pulled) < MaxPackets
  /\ IsNone(audio_output)
  /\ \E packet \in UnreadPackets :
       /\ ~NotSelected(packet, track_info)
       /\ pulled' = Append(pulled, Pulled(packet, "ok"))
       /\ events' = Append(events, Event("open_audio_err", packet.n))
  /\ pc' = "panicked"
  /\ UNCHANGED << tracks, track_num, seek_time, track_id, track_info,
                  audio_output, display, decoder, track_result, result,
                  seek_reply, finalized, resets, loop_result, make_reply,
                  stft_vars >>

\* audio_output.write(..).unwrap() on an Err: the process panics
AudioWritePanic ==
  /\ pc = "decode"
  /\ Len(pulled) < MaxPackets
  /\ \E packet \in Packets :
       /\ ~NotSelected(packet, track_info)
       /\ PassesSeekFloor(packet, track_info)
       /\ pulled' = Append(pulled, Pulled(packet, "ok"))
       /\ audio_output' = IF IsNone(audio_output) THEN Some(decoder[1])
                                                  ELSE audio_output
       /\ display' = IF IsNone(display) THEN Some(decoder[1]) ELSE display
       /\ events' = Append(events \o OpenCalls(packet.n),
                           Event("write_audio_err", packet.n))
  /\ pc' = "panicked"
  /\ UNCHANGED << tracks, track_num, seek_time, track_id, track_info,
                  decoder, track_result, result, seek_reply, finalized,
                  resets, loop_result, make_reply, stft_vars >>

\* decoder.decode fails with Error::DecodeError: warn and continue
DecodeNonFatal ==
  /\ pc = "decode"
  /\ Len(pulled) < MaxPackets
  /\ \E packet \in UnreadPackets, e \in DecoderErrors :
       /\ ~NotSelected(packet, track_info)
       /\ IsNonFatalDecodeError(e)
       /\ pulled' = Append(pulled, Pulled(packet, e.type))
  /\ UNCHANGED << pc, tracks, track_num, seek_time, track_id, track_info,
                  audio_output, display, decoder, track_result, result,
                  seek_reply, events, finalized, resets,
                  loop_result, make_reply, stft_vars >>

\* decoder.decode fails with any other error: the loop breaks with it
DecodeFatal ==
  /\ pc = "decode"
  /\ Len(pulled) < MaxPackets
  /\ \E packet \in UnreadPackets, e \in DecoderErrors :
       /\ ~NotSelected(packet, track_info)
       /\ ~IsNonFatalDecodeError(e)
       /\ pulled' = Append(pulled, Pulled(packet, e.type))
       /\ resets' = IF e = ResetRequired THEN resets + 1 ELSE resets
       /\ Break(e)
  /\ UNCHANGED << tracks, track_num, seek_time, track_id, track_info,
                  audio_output, display, result, seek_reply, make_reply,
                  stft_vars >>

\* ------------------------------------------- play: the loop on play_track
\* Err(Error::ResetRequired): select the first supported track, seek_ts 0
PlayReset ==
  /\ pc = "play_match"
  /\ track_result = Some(Err(ResetRequired))
  /\ LET track == first_supported_track(tracks)
     IN  IF track = None
           THEN \* first_supported_track(..).unwrap() panics
                /\ pc' = "panicked"
                /\ UNCHANGED track_info
           ELSE /\ track_info' = [track_id |-> track[1].id, seek_ts |-> 0]
                /\ pc' = "play_track"
  /\ UNCHANGED << tracks, track_num, seek_time, track_id, audio_output,
                  display, decoder, track_result, result, seek_reply,
                  pulled, events, finalized, resets,
                  loop_result, make_reply, stft_vars >>

\* res => break res; the audio output is flushed and play returns res
PlayBreak ==
  /\ pc = "play_match"
  /\ track_result # Some(Err(ResetRequired))
  /\ events' = IF audio_output # None
                 THEN Append(events, Event("flush_audio", 0))
                 ELSE events
  /\ result' = track_result
  /\ pc' = "returned"
  /\ UNCHANGED << tracks, track_num, seek_time, track_id, track_info,
                  audio_output, display, decoder, track_result, seek_reply,
                  pulled, finalized, resets, loop_result, make_reply,
                  stft_vars >>

\* main: any error is exit code -1, otherwise the code play provided
ExitCode(res) == IF res.ok THEN res.code ELSE -1

Next ==
  \/ SelectTrack
  \/ SeekNone
  \/ SeekDone
  \/ SeekReset
  \/ PlayTrackEnter
  \/ NextPacketError
  \/ NextPacketReset
  \/ PacketSkipped
  \/ DecodeOk
  \/ AudioOpenPanic
  \/ AudioWritePanic
  \/ DecodeNonFatal
  \/ DecodeFatal
  \/ PlayReset
  \/ PlayBreak

Spec == Init /\ [][Next]_vars

\* play is sequential code on one thread: a step that can be taken is taken
FairSpec == Spec /\ WF_vars(Next)

\* ------------------------------------------- display.rs: STFTDisplay::stft
\* Samples and magnitudes are fixed-point numbers, in hundredths.
Samples == {-100, 0, 100}
WindowSizes == 0..4
HopSizes == 1..3

Signals == UNION { [1..n -> Samples] : n \in 0..MaxLen }

\* usize::next_power_of_two without the rounding up
next_power_of_two_identity(n) == n

\* usize::next_power_of_two: the smallest power of two >= n
next_power_of_two(n) ==
  LET powers == { 2^k : k \in 0..n }
  IN  Min({ p \in powers : p >= n })

\* signal.get(i + j).unwrap_or(&0.0)
Sample(s, idx) == IF idx + 1 \in DOMAIN s THEN s[idx + 1] ELSE 0

\* 0.5 * (1.0 - 2.0 * PI * j / window_size).cos(), in hundredths, for
\* j = 0 .. window_size - 1 and window_size = 1 .. 4
HalfCosine ==
  << << 27 >>,
     << 27, -27 >>,
     << 27, 23, -50 >>,
     << 27, 42, -27, -42 >> >>

Complex(re, im) == [re |-> re, im |-> im]

\* the windowed samples of the frame that starts at i
Window(s, i, w) ==
  [j \in 1..w |-> (Sample(s, i + j - 1) * HalfCosine[w][j]) \div 100]

\* the window, zero-padded to fft_size, as complex numbers
FftInput(s, i, w, fft_size) ==
  [n \in 1..fft_size |->
     Complex(IF n <= w THEN Window(s, i, w)[n] ELSE 0, 0)]

\* e^(-2 pi i m / 4): the twiddle factors of a forward transform of size
\* 1, 2 or 4
Twiddle(m) ==
  << Complex(1, 0), Complex(0, -1), Complex(-1, 0), Complex(0, 1) >>[(m % 4) + 1]

Times(a, b) ==
  Complex(a.re * b.re - a.im * b.im, a.re * b.im + a.im * b.re)

Plus(a, b) == Complex(a.re + b.re, a.im + b.im)

RECURSIVE Bin(_, _, _)
\* bin k of the forward transform of x: the sum of x[n] e^(-2 pi i k n / N)
\* over the first n entries
Bin(x, k, n) ==
  IF n = 0
    THEN Complex(0, 0)
    ELSE Plus(Bin(x, k, n - 1),
              Times(x[n], Twiddle(k * (n - 1) * (4 \div Len(x)))))

\* fft.process(&mut input): the transform, in place
Fft(x) == [k \in 1..Len(x) |-> Bin(x, k - 1, Len(x))]

RECURSIVE SqrtFrom(_, _)
SqrtFrom(x, r) == IF (r + 1) * (r + 1) > x THEN r ELSE SqrtFrom(x, r + 1)

\* Complex::norm: sqrt(re^2 + im^2), rounded down to a hundredth
Norm(c) == SqrtFrom(c.re * c.re + c.im * c.im, 0)

\* the magnitude spectrum of the frame that starts at i
MagnitudeSpectrum(s, i, w) ==
  LET output == Fft(FftInput(s, i, w, next_power_of_two(w)))
  IN  [k \in 1..Len(output) |-> Norm(output[k])]

StftInit ==
  /\ pc = "stft"
  /\ signal \in Signals
  /\ window_size \in WindowSizes
  /\ hop_size \in HopSizes
  /\ frame_start = 0
  /\ stft_result = << >>
  /\ tracks = << >>
  /\ track_num = None
  /\ seek_time = None
  /\ track_id = 0
  /\ track_info = [track_id |-> 0, seek_ts |-> 0]
  /\ audio_output = None
  /\ display = None
  /\ decoder = None
  /\ track_result = None
  /\ result = None
  /\ seek_reply = None
  /\ pulled = << >>
  /\ events = << >>
  /\ finalized = None
  /\ loop_result = None
  /\ make_reply = None
  /\ resets = 0

\* one turn of for i in (0..signal.len()).step_by(hop_size)
StftFrame ==
  /\ pc = "stft"
  /\ frame_start < Len(signal)
  /\ stft_result' = Append(stft_result,
                           MagnitudeSpectrum(signal, frame_start, window_size))
  /\ frame_start' = frame_start + hop_size
  /\ UNCHANGED << pc, signal, window_size, hop_size, play_vars >>

\* the range is exhausted: stft returns stft_result
StftReturn ==
  /\ pc = "stft"
  /\ frame_start >= Len(signal)
  /\ pc' = "stft_returned"
  /\ UNCHANGED << stft_vars, play_vars >>

StftNext == StftFrame \/ StftReturn

StftSpec == StftInit /\ [][StftNext]_vars
\* =================================================================== claims
\* the calls of one kind, in the order they were made
Calls(ops) == SelectSeq(events, LAMBDA e : e.op \in ops)

\* the blocks a sink accepted, in the order it accepted them
Delivered(op) ==
  LET calls == Calls({op})
  IN  [i \in 1..Len(calls) |-> calls[i].n]

\* the successfully decoded blocks of the selected track at or above the
\* seek floor, in arrival order
InRange(p) == /\ p.dec = "ok"
              /\ p.track_id = p.sel.track_id
              /\ p.ts >= p.sel.seek_ts
Expected ==
  LET sel == SelectSeq(pulled, InRange)
  IN  [i \in 1..Len(sel) |-> sel[i].n]

IsPrefix(s, t) == /\ Len(s) <= Len(t)
                  /\ \A i \in 1..Len(s) : s[i] = t[i]

WriteOps == {"write_audio", "write_audio_err", "write_display"}

\* C1: a block is handed to a sink (audio output or display) only if its
\* packet's timestamp is >= the seek floor of the selection it was pulled
\* under; no sink is ever handed a block below the floor.
C1_NoBlockBelowSeekFloor ==
  \A i \in 1..Len(events) :
    events[i].op \in WriteOps =>
      pulled[events[i].n].ts >= pulled[events[i].n].sel.seek_ts

\* a block below the floor was decoded and dropped, a later one was written
C1_Witness ==
  \E i, j \in 1..Len(pulled) :
    /\ i < j
    /\ pulled[i].dec = "ok" /\ pulled[i].ts < pulled[i].sel.seek_ts
    /\ pulled[j].dec = "ok" /\ pulled[j].ts >= pulled[j].sel.seek_ts
    /\ Delivered("write_audio") = << j >>
    /\ Delivered("write_display") = << j >>

\* C2: what each sink has accepted is always a prefix, in arrival order, of
\* the successfully decoded in-range blocks of the selected track, and,
\* unless a sink call failed, it is all of them: both sinks have accepted
\* the same sequence, with no drop, reordering or duplication.
C2_SinksSeeDecodedBlocksInOrder ==
  LET audio == Delivered("write_audio")
      shown == Delivered("write_display")
      decoded == Expected
  IN  /\ IsPrefix(audio, decoded)
      /\ IsPrefix(shown, decoded)
      /\ pc # "panicked" => (audio = decoded /\ shown = decoded)

\* three packets were pulled, one was not forwarded, two reached both sinks
C2_Witness ==
  /\ pc = "returned"
  /\ Len(pulled) = 3
  /\ Len(Expected) = 2
  /\ Delivered("write_audio") = Expected
  /\ Delivered("write_display") = Expected

\* the flushes made, in order
Flushes == Calls({"flush_audio", "flush_display"})

\* the sinks that are open, in registration order
OpenSinks ==
  (IF audio_output # None THEN << "flush_audio" >> ELSE << >>)
    \o (IF display # None THEN << "flush_display" >> ELSE << >>)

\* C3: when play has returned, with a status or with an error, every sink
\* that was opened (audio output, then display) has been flushed exactly
\* once, in registration order; no sink is flushed before the loop has ended.
C3_EverySinkFlushedOnce ==
  /\ pc = "returned" =>
       /\ Len(Flushes) = Len(OpenSinks)
       /\ \A i \in 1..Len(Flushes) : Flushes[i].op = OpenSinks[i]
  /\ pc \notin {"returned", "panicked"} => Flushes = << >>

\* C4: each sink's constructor is invoked at most once in a run of play, on
\* the first decoded block, however many blocks arrive: a sink that exists,
\* or that was handed a block, was constructed exactly once.
OpenAudioCalls == Len(Calls({"open_audio", "open_audio_err"}))
OpenDisplayCalls == Len(Calls({"open_display"}))

C4_SinkConstructedOnce ==
  /\ OpenAudioCalls <= 1
  /\ OpenDisplayCalls <= 1
  /\ audio_output # None => OpenAudioCalls = 1
  /\ display # None => OpenDisplayCalls = 1
  /\ (pc # "panicked" /\ \E i \in 1..Len(pulled) : pulled[i].dec = "ok")
       => (OpenAudioCalls = 1 /\ OpenDisplayCalls = 1)

\* three blocks were decoded and both sinks were constructed once
C4_Witness ==
  /\ Len(pulled) = 3
  /\ \A i \in 1..3 : pulled[i].dec = "ok"
  /\ audio_output # None /\ display # None
  /\ OpenAudioCalls = 1 /\ OpenDisplayCalls = 1
\* the track the claim names for the initial selection: the track at the
\* user's index when there is one, else the first whose codec is known
KnownCodec == { i \in DOMAIN tracks : tracks[i].codec # CODEC_TYPE_NULL }
C5_Claimed ==
  IF track_num # None /\ track_num[1] < Len(tracks)
    THEN Some(tracks[track_num[1] + 1])
    ELSE IF KnownCodec # {}
           THEN Some(tracks[Min(KnownCodec)])
           ELSE None

\* C5: the initial selection is the track at the user's index if that index
\* resolves, whatever its codec; otherwise the first track in list order
\* whose codec is not CODEC_TYPE_NULL; otherwise no track is selected.
C5_InitialSelection ==
  [][pc = "select" =>
       IF C5_Claimed = None
         THEN pc' = "returned" /\ track_id' = track_id
         ELSE pc' = "seek" /\ track_id' = C5_Claimed[1].id]_vars

\* the user's index resolved to a track of unknown codec, and it was selected
C5_Witness ==
  /\ pc = "seek"
  /\ track_num # None
  /\ track_num[1] < Len(tracks)
  /\ tracks[track_num[1] + 1].codec = CODEC_TYPE_NULL
  /\ KnownCodec # {}
  /\ track_id = tracks[track_num[1] + 1].id

\* C6: when the initial selection yields no track, play returns Ok(0) at
\* once: no seek, no packet, no decoder, no sink; nothing happens after.
C6_NoTrackNothingToDo ==
  [][/\ pc # "returned"
     /\ (pc = "select" /\ C5_Claimed = None) =>
          /\ pc' = "returned"
          /\ result' = Some(Ok(0))
          /\ ExitCode(result'[1]) = 0
          /\ events' = << >>
          /\ pulled' = << >>
          /\ seek_reply' = None
          /\ decoder' = None /\ audio_output' = None /\ display' = None]_vars

\* play returned without a track although the list is not empty
C6_Witness ==
  /\ pc = "returned"
  /\ tracks # << >>
  /\ KnownCodec = {}
  /\ track_id = 0
  /\ result = Some(Ok(0))
  /\ events = << >>

\* C7: up to the first reset of the decode loop, the seek floor handed to
\* play_track is 0 when no seek time is given (the reader is not asked), the
\* required timestamp when the seek succeeds, and 0 when the seek fails
\* with an error other than reset-required, in which case play goes on to
\* decode the track selected before the seek.
C7_SeekFloor ==
  (pc \notin {"select", "seek"} /\ track_id # 0 /\ resets = 0) =>
    /\ seek_time = None =>
         /\ seek_reply = None
         /\ Calls({"seek"}) = << >>
         /\ track_info = [track_id |-> track_id, seek_ts |-> 0]
    /\ (seek_reply # None /\ seek_reply[1].ok) =>
         track_info = [track_id |-> track_id,
                       seek_ts |-> seek_reply[1].required_ts]
    /\ (seek_reply # None /\ ~seek_reply[1].ok
          /\ seek_reply[1].err # ResetRequired) =>
         /\ track_info = [track_id |-> track_id, seek_ts |-> 0]
         /\ C5_Claimed # None /\ track_id = C5_Claimed[1].id
         /\ pc = "play_track" \/ Calls({"make"}) # << >>

\* the seek succeeded with a required timestamp above 0 and decoding began
C7_Witness ==
  /\ pc = "decode"
  /\ seek_reply # None
  /\ seek_reply[1].ok
  /\ seek_reply[1].required_ts > 0
  /\ track_info.seek_ts = seek_reply[1].required_ts

\* C8: after a reset-required answer to the initial seek, with a track of
\* known codec in the reader's new list, play goes on with the first such
\* track (the user's index is not applied) and a seek floor of 0, and the
\* reader was asked to seek once.
C8_SeekResetReselects ==
  (seek_reply = Some(SeekFailed(ResetRequired)) /\ resets = 0
     /\ KnownCodec # {}) =>
    /\ pc \notin {"select", "seek"}
    /\ track_info = [track_id |-> tracks[Min(KnownCodec)].id, seek_ts |-> 0]
    /\ Len(Calls({"seek"})) = 1
    /\ pc = "decode" =>
         decoder = Some(tracks[Min(KnownCodec)].codec)

\* a user index that resolves in the new list to another track than the
\* first of known codec, and decoding began with the latter
C8_Witness ==
  /\ seek_reply = Some(SeekFailed(ResetRequired))
  /\ pc = "decode"
  /\ resets = 0
  /\ track_num # None
  /\ track_num[1] < Len(tracks)
  /\ tracks[track_num[1] + 1].id # track_info.track_id
  /\ track_info.seek_ts = 0

\* C9: after a reset-required signal in the decode loop play selects the
\* first track of known codec of the reader's list with a seek floor of 0 and
\* decodes on; the reset is not returned as an error; and when play has
\* returned every sink that was opened has been flushed.
C9_ResetRecoversAndFlushes ==
  /\ (resets > 0 /\ pc \in {"play_track", "decode"}) =>
       track_info = [track_id |-> tracks[Min(KnownCodec)].id, seek_ts |-> 0]
  /\ (resets > 0 /\ pc = "returned") =>
       /\ result # Some(Err(ResetRequired))
       /\ audio_output # None => Len(Calls({"flush_audio"})) = 1
       /\ display # None => Len(Calls({"flush_display"})) = 1

HadDecodeError == \E i \in 1..Len(pulled) : pulled[i].dec = "DecodeError"

\* C10 as stated: the exit status is 0 whenever a run with a non-fatal
\* decode error ends without a fatal error.
C10_Original ==
  (pc = "returned" /\ HadDecodeError /\ result[1].ok) =>
    ExitCode(result[1]) = 0

\* C10: a non-fatal decode error leaves the loop running and changes no
\* selection or sink state; nothing is delivered for that packet; the
\* decoded in-range blocks before and after it are delivered; and the exit
\* status is 0 when no fatal error occurs and finalize reports no failed
\* verification.
C10_NonFatalDecodeErrorContinues ==
  /\ [][(Len(pulled') = Len(pulled) + 1
           /\ pulled'[Len(pulled')].dec = "DecodeError") =>
          /\ pc = "decode" /\ pc' = "decode"
          /\ UNCHANGED << track_info, audio_output, display, decoder,
                          events, tracks, track_result >>]_vars
  /\ [](/\ \A i \in 1..Len(events) :
             events[i].n # 0 => pulled[events[i].n].dec = "ok"
        /\ (pc # "panicked" /\ HadDecodeError) =>
             /\ Delivered("write_audio") = Expected
             /\ Delivered("write_display") = Expected
        /\ (pc = "returned" /\ HadDecodeError /\ result[1].ok
              /\ finalized # Some(Some(FALSE))) =>
             ExitCode(result[1]) = 0)

\* a block was delivered, the next packet failed to decode, the block after
\* it was delivered, and play returned 0
C10_Witness ==
  /\ pc = "returned"
  /\ Len(pulled) = 3
  /\ pulled[1].dec = "ok" /\ pulled[2].dec = "DecodeError"
  /\ pulled[3].dec = "ok"
  /\ Delivered("write_audio") = << 1, 3 >>
  /\ Delivered("write_display") = << 1, 3 >>
  /\ result = Some(Ok(0))
  /\ ExitCode(result[1]) = 0

\* the decode loop broke with this error of the reader or of the decoder
LoopBrokeWith(e) == loop_result = Some(Err(e))

\* C11: when the packet source signals end of stream (an I/O error of kind
\* UnexpectedEof with the message "end of stream") the decode loop ends and
\* play returns a success status, with every open sink flushed; any other
\* I/O error of the source is returned as an error.
C11_EndOfStreamIsSuccess ==
  /\ LoopBrokeWith(EndOfStream) => pc \in {"play_match", "returned"}
  /\ (pc = "returned" /\ LoopBrokeWith(EndOfStream)) =>
       /\ result # None /\ result[1].ok
       /\ audio_output # None => Len(Calls({"flush_audio"})) = 1
       /\ display # None => Len(Calls({"flush_display"})) = 1
  /\ \A e \in IoErrors \ {EndOfStream} :
       (pc = "returned" /\ LoopBrokeWith(e)) => result = Some(Err(e))

\* C12: when decoding ends at end of stream the exit status is 1 if the
\* decoder's finalize reports a failed verification, 0 if it reports a
\* passed one and 0 if it reports none; a fatal error gives exit status -1.
C12_ExitStatus ==
  /\ (pc = "returned" /\ LoopBrokeWith(EndOfStream)) =>
       /\ finalized # None
       /\ finalized[1] = Some(FALSE) => ExitCode(result[1]) = 1
       /\ finalized[1] = Some(TRUE) => ExitCode(result[1]) = 0
       /\ finalized[1] = None => ExitCode(result[1]) = 0
  /\ (pc = "returned" /\ ~result[1].ok) => ExitCode(result[1]) = -1

\* blocks were played, the stream ended, finalize reported a failed
\* verification and the exit status is 1
C12_Witness ==
  /\ pc = "returned"
  /\ LoopBrokeWith(EndOfStream)
  /\ Delivered("write_audio") # << >>
  /\ finalized = Some(Some(FALSE))
  /\ ExitCode(result[1]) = 1

\* the errors the controller has no handling for
IsFatal(e) ==
  /\ e.type \notin {"DecodeError", "ResetRequired"}
  /\ ~(e.type = "IoError" /\ e.kind = "UnexpectedEof"
         /\ e.msg = "end of stream")

\* C13: an error of the packet source or of the decoder that is not a
\* non-fatal decode error, not reset-required and not end of stream, and
\* any error of the decoder's construction, ends the session: play_track
\* returns it, play pulls no further packet and returns that same error
\* value, not a status code and not another error.
C13_FatalErrorReturnedUnchanged ==
  /\ [][/\ (loop_result' # loop_result /\ loop_result' # None
            /\ IsFatal(loop_result'[1].err)) =>
           (pc' = "play_match" /\ track_result' = loop_result')
        /\ (make_reply' # make_reply /\ ~make_reply'[1].ok) =>
           (pc' = "play_match" /\ track_result' = make_reply')
        /\ (pc = "play_match" /\ ~track_result[1].ok
            /\ IsFatal(track_result[1].err)) =>
           (pc' = "returned" /\ result' = track_result
            /\ pulled' = pulled)]_vars
  /\ [](pc = "returned" =>
          /\ (loop_result # None /\ IsFatal(loop_result[1].err)) =>
               result = loop_result
          /\ (make_reply # None /\ ~make_reply[1].ok) =>
               result = make_reply)

\* blocks were played, then the source failed with an I/O error of kind
\* UnexpectedEof that is not the end of the stream, and play returned it
C13_Witness ==
  /\ pc = "returned"
  /\ Delivered("write_audio") # << >>
  /\ LoopBrokeWith(IoError("UnexpectedEof", "other"))
  /\ result = Some(Err(IoError("UnexpectedEof", "other")))

\* a sink's constructor has answered with an error
SinkOpenFailed == Calls({"open_audio_err"}) # << >>

\* C14: a sink that cannot be constructed on the first decoded block is a
\* fatal error: the program does not stop abruptly, play returns an error
\* result to its caller, and every sink already open has been flushed.
C14_SinkOpenFailureIsReturned ==
  SinkOpenFailed =>
    /\ pc # "panicked"
    /\ pc = "returned" =>
         /\ result # None /\ ~result[1].ok
         /\ Len(Flushes) = Len(OpenSinks)

\* p is the smallest power of two that is not below w
IsNextPowerOfTwo(p, w) ==
  /\ \E k \in 0..w : p = 2^k
  /\ p >= w
  /\ p = 1 \/ p < 2 * w

\* C15: for a mono signal of length N >= 1, a window size W and a hop size
\* H >= 1, stft returns exactly floor((N - 1) / H) + 1 frames, reading zero
\* past the end of the signal, and each frame has exactly
\* next_power_of_two(W) magnitudes, all >= 0.
C15_StftShape ==
  (pc = "stft_returned" /\ Len(signal) >= 1) =>
    /\ Len(stft_result) = ((Len(signal) - 1) \div hop_size) + 1
    /\ \A f \in 1..Len(stft_result) :
         /\ IsNextPowerOfTwo(Len(stft_result[f]), window_size)
         /\ \A k \in 1..Len(stft_result[f]) : stft_result[f][k] >= 0

\* three samples, a window of three and a hop of two: two frames of four
\* magnitudes, the second reading past the end of the signal, not all zero
C15_Witness ==
  /\ pc = "stft_returned"
  /\ Len(signal) = 3 /\ window_size = 3 /\ hop_size = 2
  /\ Len(stft_result) = 2
  /\ Len(stft_result[2]) = 4
  /\ \E k \in 1..4 : stft_result[2][k] > 0

\* a block of the running decoder has just been handled by the loop
BlockDecoded ==
  /\ pc = "decode"
  /\ pulled # << >>
  /\ pulled[Len(pulled)].dec = "ok"

\* C16: the sinks a block is forwarded to were constructed from the
\* geometry (spec and capacity) of that block's stream: after a reset that
\* changes the geometry the handles are discarded and new sinks are
\* constructed before any block of the new stream is forwarded; with the
\* geometry unchanged the handles stay.
C16_SinksFollowGeometry ==
  BlockDecoded =>
    /\ audio_output = Some(decoder[1])
    /\ display = Some(decoder[1])

\* C17: in every run that ends at end of stream, the decoder's finalize is
\* called after the flush of every open sink: each open sink has a flush
\* in the calls made before finalize.
C17_FinalizeAfterFlush ==
  (pc = "returned" /\ LoopBrokeWith(EndOfStream)) =>
    \E f \in 1..Len(events) :
      /\ events[f].op = "finalize"
      /\ audio_output # None =>
           \E i \in 1..(f - 1) : events[i].op = "flush_audio"
      /\ display # None =>
           \E i \in 1..(f - 1) : events[i].op = "flush_display"

\* the reply of next_packet that was handled last was a packet of another
\* track than the selected one
OtherTrackPulled ==
  /\ Len(pulled') = Len(pulled) + 1
  /\ pulled'[Len(pulled')].dec # "reset"
  /\ pulled'[Len(pulled')].track_id # track_info.track_id

\* C18: a packet whose track id differs from the selected track id is
\* discarded and nothing else changes: it is not decoded, no sink is
\* constructed or written, the selection, the seek floor and the sink
\* handles stay as they are, and the loop goes on to the next packet; no
\* call ever carries the number of such a packet.
C18_OtherTrackPacketDiscarded ==
  /\ [][OtherTrackPulled =>
          /\ pulled'[Len(pulled')].dec = "skipped"
          /\ pc = "decode" /\ pc' = "decode"
          /\ UNCHANGED << track_id, track_info, audio_output, display,
                          decoder, events, tracks, track_result, result,
                          finalized, resets, loop_result >>]_vars
  /\ [](\A i \in 1..Len(events) :
          events[i].n # 0 =>
            /\ pulled[events[i].n].dec = "ok"
            /\ pulled[events[i].n].track_id
                 = pulled[events[i].n].sel.track_id)

\* a packet of another track arrived first and was skipped, the next packet
\* opened the sinks and was delivered, a third packet was skipped after it
C18_Witness ==
  /\ pc = "decode"
  /\ Len(pulled) = 3
  /\ pulled[1].dec = "skipped" /\ pulled[1].track_id # track_info.track_id
  /\ pulled[2].dec = "ok"
  /\ pulled[3].dec = "skipped"
  /\ Calls({"open_audio"}) = << Event("open_audio", 2) >>
  /\ Delivered("write_audio") = << 2 >>
  /\ Delivered("write_display") = << 2 >>

\* the blocks the sinks accepted, in the order of the calls
Writes == Calls({"write_audio", "write_display"})

\* C19: the sinks are handed every forwarded block in a fixed order: the
\* audio output accepts block k before the display accepts block k, the
\* display accepts block k before the audio output accepts the next block,
\* and the display never accepts a block the audio output has not accepted.
C19_AudioThenDisplay ==
  LET w == Writes
  IN  /\ \A i \in 1..Len(w) :
           IF i % 2 = 1
             THEN /\ w[i].op = "write_audio"
                  /\ i > 1 => w[i - 1].n < w[i].n
             ELSE /\ w[i].op = "write_display"
                  /\ w[i - 1].n = w[i].n
      /\ pc # "panicked" => Len(w) % 2 = 0

\* two blocks were forwarded: audio 1, display 1, audio 2, display 2
C19_Witness ==
  /\ Len(Writes) = 4
  /\ Writes[1] = Event("write_audio", Writes[2].n)
  /\ Writes[2].op = "write_display"
  /\ Writes[3] = Event("write_audio", Writes[4].n)
  /\ Writes[4].op = "write_display"
  /\ Writes[2].n < Writes[3].n

\* the tracks of the reader's list that have the selected id
WithSelectedId == { i \in DOMAIN tracks : tracks[i].id = track_info.track_id }

\* C20: at the first entry and after every reset the selected track id is
\* looked up in the reader's current list before any packet is pulled: a
\* decoder is made only from a track that has that id, packets are pulled
\* only under such a decoder, and if no track has the id the attempt ends
\* with status 0 with no packet pulled and no decoder constructed.
C20_TrackLookedUpFirst ==
  /\ [][/\ pc = "play_track" =>
            /\ pulled' = pulled
            /\ IF WithSelectedId = {}
                 THEN /\ pc' = "play_match"
                      /\ track_result' = Some(Ok(0))
                      /\ decoder' = None
                      /\ events' = events
                 ELSE decoder' # None =>
                        \E i \in WithSelectedId :
                          decoder' = Some(tracks[i].codec)
        /\ Len(pulled') > Len(pulled) => pc = "decode"]_vars
  /\ [](pc = "decode" =>
          \E i \in WithSelectedId : decoder = Some(tracks[i].codec))

\* after a reset the selected track is not the first of the new list, and
\* the decoder was made from it before a packet of the new stream was pulled
C20_Witness ==
  /\ pc = "decode"
  /\ resets = 1
  /\ pulled[Len(pulled)].dec = "reset"
  /\ Len(tracks) = 2
  /\ tracks[1].id # track_info.track_id
  /\ decoder = Some(tracks[2].codec)

\* a call to a sink has answered with an error
SinkCallFailed == Calls({"open_audio_err", "write_audio_err"}) # << >>

\* the reader asked for a reset and its list has no track of known codec
ReselectedNothing ==
  /\ KnownCodec = {}
  /\ \/ seek_reply = Some(SeekFailed(ResetRequired))
     \/ resets > 0

\* C21: when the track is selected again after a reset-required signal (of
\* the initial seek or of the decode loop) and the reader's list has no
\* track of known codec, play ends with the success status 0, the open
\* sinks flushed; reset recovery never ends play otherwise than by
\* returning a status or an error.
C21_ReselectionWithoutTrack ==
  /\ pc = "panicked" => SinkCallFailed
  /\ (pc = "returned" /\ ReselectedNothing) =>
       /\ result = Some(Ok(0))
       /\ Len(Flushes) = Len(OpenSinks)

\* the reader has asked for no reset so far
NoReset == resets = 0 /\ seek_reply # Some(SeekFailed(ResetRequired))

\* every run of play goes on until play has returned or the process has
\* panicked
ReturnsOrPanics == <>(pc \in {"returned", "panicked"})

\* C22: with finitely many packets and resets, followed by end of stream or
\* an error, play returns a status or an error: a run can go no further only
\* once play has returned. Decoding is left for track selection only by a
\* reset: without a reset decoding is entered at most once, and every
\* packet is pulled once.
C22_PlayReturns ==
  /\ (ENABLED Next) \/ pc = "returned"
  /\ NoReset => Len(Calls({"make"})) <= 1
  /\ \A i \in 1..Len(pulled) : pulled[i].n = i
====
